---- MODULE Spec2Model ----
(***************************************************************************)
(* Model of barcode_with_midi.py: the barcode-text to MIDI mapping.       *)
(*                                                                         *)
(* Conventions.  A text is a sequence of Unicode code points.  A beat      *)
(* value (unit_beats, duration_beats, chord_duration_beats) is held as an  *)
(* integer number of 1/BeatDen beats; every beat value the program uses    *)
(* (0.125, 0.25, 0.375, 0.5, 1.0 + k*0.5, 2.0, 3.0) is a multiple of 1/8   *)
(* and is exact in binary floating point, as are its products with the     *)
(* small integers of the model.  The result of a call is the record        *)
(* [kind, exc, notes]: kind is "return" or "raise".                        *)
(***************************************************************************)
EXTENDS Integers, Sequences, FiniteSets, TLC

VARIABLES
    op,      \* the function being called ("none": the pipeline's loop)
    args,    \* the arguments of that call
    pc,      \* "call" before the function body has run, "done" after
    runs,    \* ascii_to_notes: the local list `runs` when the call ended
    ret,     \* the outcome of the call: [kind, exc, notes]
    track,   \* the emitters: the messages appended to the mido track
    saved,   \* the emitters: TRUE iff mid.save(out_path) was executed
    ch,      \* the module-level global `ch` of barcode_with_midi.py
    loop,    \* how the module runs: "imported", "running" (the __main__ loop), "crashed"
    log      \* the calls of barcode_ascii_to_midi made so far, in order

vars == <<op, args, pc, runs, ret, track, saved, ch, loop, log>>

----------------------------------------------------------------------------
(* Bounds of the model *)

MaxLen == 3          \* longest text enumerated over Alphabet
MaxNotes == 3        \* longest Note list handed to an emitter
MaxScanLen == 2      \* longest scanned text in the pipeline
MaxScans == 2        \* calls of barcode_ascii_to_midi recorded in log

(* Program constants *)

BeatDen == 8         \* beat values are counted in 1/8 beats (0.125 is the smallest)
CR == 13             \* "\r"
LF == 10             \* "\n"
PitchMax == 127
VelocityMax == 127
Octave == 12
BarVelocity == 95
SpaceVelocity == 55
DefaultMinRun == 1
DefaultMaxRun == 12
DefaultTicksPerBeat == 480
HardCodedChordBeats == 24     \* chord_duration_beats=3.0, in 1/8 beats

\* A module-level name: not assigned yet, or bound to a value.
Undefined == [bound |-> FALSE, value |-> <<>>]
Bound(v) == [bound |-> TRUE, value |-> v]

Max(a, b) == IF a >= b THEN a ELSE b
Min(a, b) == IF a <= b THEN a ELSE b

RECURSIVE SeqsUpTo(_, _)
SeqsUpTo(S, n) ==
    IF n = 0 THEN {<<>>}
    ELSE LET shorter == SeqsUpTo(S, n - 1)
         IN  shorter \cup {Append(s, x) : s \in {t \in shorter : Len(t) = n - 1}, x \in S}

Repeat(c, n) == [k \in 1..n |-> c]

----------------------------------------------------------------------------
(* Data *)

Note(pitch, duration_beats, velocity) ==
    [pitch |-> pitch, duration_beats |-> duration_beats, velocity |-> velocity]

SCALES ==
    [major      |-> <<0, 2, 4, 5, 7, 9, 11>>,
     minor      |-> <<0, 2, 3, 5, 7, 8, 10>>,
     pentatonic |-> <<0, 2, 4, 7, 9>>]

\* str.lower() on the scale names the model passes
Lower(name) ==
    CASE name = "MINOR" -> "minor"
      [] name = "Major" -> "major"
      [] OTHER -> name

\* SCALES.get(name): the list, or None (here <<>>, which `not` treats alike)
ScalesGet(name) == IF name \in DOMAIN SCALES THEN SCALES[name] ELSE <<>>

clamp(v, lo, hi) == Max(lo, Min(hi, v))

\* ch in ("|", "1", "█", "#", "X", "x")
BarChars == {124, 49, 9608, 35, 88, 120}

Returned(notes) == [kind |-> "return", exc |-> "", notes |-> notes]
Raised(exc) == [kind |-> "raise", exc |-> exc, notes |-> <<>>]

----------------------------------------------------------------------------
(* ascii_to_notes *)

\* s = barcode_ascii.replace("\r", "").replace("\n", "")
Normalize(barcode_ascii) ==
    SelectSeq(SelectSeq(barcode_ascii, LAMBDA c : c # CR), LAMBDA c : c # LF)

\* The run-length loop: `for ch in s[1:]` from index k on, with the locals
\* prev, cnt and runs; the final runs.append((prev, cnt)) ends it.
RECURSIVE RunLengthLoop(_, _, _, _, _)
RunLengthLoop(s, k, prev, cnt, acc) ==
    IF k > Len(s) THEN Append(acc, <<prev, cnt>>)
    ELSE IF s[k] = prev THEN RunLengthLoop(s, k + 1, prev, cnt + 1, acc)
    ELSE RunLengthLoop(s, k + 1, s[k], 1, Append(acc, <<prev, cnt>>))

\* Variant of the run-length loop without the final runs.append((prev, cnt)).
RunLengthEncodeNoLast(s) ==
    LET all == RunLengthLoop(s, 2, s[1], 1, <<>>) IN SubSeq(all, 1, Len(all) - 1)

\* runs for a non-empty s: prev = s[0]; cnt = 1; the loop
RunLengthEncode(s) == RunLengthLoop(s, 2, s[1], 1, <<>>)

\* Variant of the loop body without the clamp of the pitch.
NoteForRunPitchUnclamped(i, c, n, base_note, scale_ints, unit_beats, min_run, max_run) ==
    LET run == clamp(n, min_run, max_run)
        is_bar == c \in BarChars
        degree == scale_ints[((c + i + run) % Len(scale_ints)) + 1]
    IN  Note(base_note + degree + (IF is_bar THEN Octave ELSE 0),
             run * unit_beats,
             IF is_bar THEN BarVelocity ELSE SpaceVelocity)

\* Variant of the loop body that indexes the scale with the unclamped length.
NoteForRunRawLength(i, c, n, base_note, scale_ints, unit_beats, min_run, max_run) ==
    LET run == clamp(n, min_run, max_run)
        is_bar == c \in BarChars
        degree == scale_ints[((c + i + n) % Len(scale_ints)) + 1]
    IN  Note(clamp(base_note + degree + (IF is_bar THEN Octave ELSE 0), 0, PitchMax),
             run * unit_beats,
             IF is_bar THEN BarVelocity ELSE SpaceVelocity)

\* The body of `for i, (ch, run) in enumerate(runs)`; i is 0-based.
NoteForRun(i, c, n, base_note, scale_ints, unit_beats, min_run, max_run) ==
    LET run == clamp(n, min_run, max_run)
        is_bar == c \in BarChars
        degree == scale_ints[((c + i + run) % Len(scale_ints)) + 1]
        pitch == clamp(base_note + degree + (IF is_bar THEN Octave ELSE 0), 0, PitchMax)
        velocity == IF is_bar THEN BarVelocity ELSE SpaceVelocity
        duration == run * unit_beats
    IN  Note(pitch, duration, velocity)

\* ascii_to_notes: the final value of the local `runs` and the outcome.
AsciiToNotes(barcode_ascii, base_note, scale, unit_beats, min_run, max_run) ==
    LET s == Normalize(barcode_ascii)
    IN  IF s = <<>> THEN [runs |-> <<>>, ret |-> Returned(<<>>)]
        ELSE LET rl == RunLengthEncode(s)
                 scale_ints == ScalesGet(Lower(scale))
             IN  IF scale_ints = <<>>
                 THEN [runs |-> rl, ret |-> Raised("ValueError: Unknown scale")]
                 ELSE [runs |-> rl,
                       ret |-> Returned([j \in 1..Len(rl) |->
                                  NoteForRun(j - 1, rl[j][1], rl[j][2], base_note,
                                             scale_ints, unit_beats, min_run, max_run)])]

----------------------------------------------------------------------------
(* The emitters.  A message of the track is a record with its type and its
   delta time in ticks (the field `time` of mido). *)

SetTempo(tempo) == [type |-> "set_tempo", tempo |-> tempo, time |-> 0]
ProgramChange(program, channel) ==
    [type |-> "program_change", program |-> program, channel |-> channel, time |-> 0]
NoteOn(note, velocity, channel, time) ==
    [type |-> "note_on", note |-> note, velocity |-> velocity, channel |-> channel,
     time |-> time]
NoteOff(note, channel, time) ==
    [type |-> "note_off", note |-> note, velocity |-> 0, channel |-> channel,
     time |-> time]

\* mido.bpm2tempo(bpm): microseconds per beat, rounded (no tie below bpm 512)
Bpm2Tempo(bpm) == (2 * 60000000 + bpm) \div (2 * bpm)

\* The two messages both emitters put first.
Preamble(bpm, program, channel) ==
    <<SetTempo(Bpm2Tempo(bpm)), ProgramChange(program, channel)>>

\* int(beats * ticks_per_beat) for a beat value given in 1/BeatDen beats
\* (int truncates toward zero)
BeatsToTicks(beats, ticks_per_beat) ==
    IF beats * ticks_per_beat >= 0
    THEN (beats * ticks_per_beat) \div BeatDen
    ELSE -((-(beats * ticks_per_beat)) \div BeatDen)

\* Variant of the loop of notes_to_midi_file that puts the duration on the
\* note_on as well.
RECURSIVE SequentialMessagesDelayedOn(_, _, _)
SequentialMessagesDelayedOn(notes, channel, ticks_per_beat) ==
    IF notes = <<>> THEN <<>>
    ELSE LET n == Head(notes)
         IN  <<NoteOn(n.pitch, n.velocity, channel,
                      BeatsToTicks(n.duration_beats, ticks_per_beat)),
               NoteOff(n.pitch, channel, BeatsToTicks(n.duration_beats, ticks_per_beat))>>
             \o SequentialMessagesDelayedOn(Tail(notes), channel, ticks_per_beat)

\* `for n in notes`: a note_on at delta 0, then a note_off after the duration
RECURSIVE SequentialMessages(_, _, _)
SequentialMessages(notes, channel, ticks_per_beat) ==
    IF notes = <<>> THEN <<>>
    ELSE LET n == Head(notes)
         IN  <<NoteOn(n.pitch, n.velocity, channel, 0),
               NoteOff(n.pitch, channel, BeatsToTicks(n.duration_beats, ticks_per_beat))>>
             \o SequentialMessages(Tail(notes), channel, ticks_per_beat)

\* notes_to_midi_file: the track, whether the file was saved, the outcome
NotesToMidiFile(notes, bpm, program, channel, ticks_per_beat) ==
    [track |-> Preamble(bpm, program, channel)
                 \o SequentialMessages(notes, channel, ticks_per_beat),
     saved |-> TRUE,
     ret |-> Returned(<<>>)]

\* sorted(S) for a set of integers
RECURSIVE Sorted(_)
Sorted(S) ==
    IF S = {} THEN <<>>
    ELSE LET m == CHOOSE x \in S : \A y \in S : x <= y
         IN  <<m>> \o Sorted(S \ {m})

RECURSIVE SumVelocity(_)
SumVelocity(notes) ==
    IF notes = <<>> THEN 0 ELSE Head(notes).velocity + SumVelocity(Tail(notes))

\* int(a / b) for b > 0: the quotient truncated toward zero
IntDiv(a, b) == IF a >= 0 THEN a \div b ELSE -((-a) \div b)

\* Variant of ChordPitches that sorts the pitches without removing duplicates.
RECURSIVE ChordPitchesWithDuplicates(_)
ChordPitchesWithDuplicates(notes) ==
    IF notes = <<>> THEN <<>>
    ELSE LET rest == ChordPitchesWithDuplicates(Tail(notes))
             p == Head(notes).pitch
             k == Cardinality({j \in 1..Len(rest) : rest[j] <= p})
         IN  SubSeq(rest, 1, k) \o <<p>> \o SubSeq(rest, k + 1, Len(rest))

\* pitches = sorted({n.pitch for n in notes})
ChordPitches(notes) == Sorted({notes[j].pitch : j \in 1..Len(notes)})

\* Variant of ChordVelocity that averages over the distinct pitches.
ChordVelocityPerPitch(notes) ==
    LET vel == IntDiv(SumVelocity(notes), Len(ChordPitches(notes)))
    IN  Max(1, Min(VelocityMax, vel))

\* vel = int(sum(velocity) / len(notes)); vel = max(1, min(127, vel))
ChordVelocity(notes) ==
    LET vel == IntDiv(SumVelocity(notes), Len(notes))
    IN  Max(1, Min(VelocityMax, vel))

\* notes_to_midi_chord_file: the track, whether the file was saved, the outcome
NotesToMidiChordFile(notes, bpm, program, channel, ticks_per_beat, chord_duration_beats) ==
    LET head == Preamble(bpm, program, channel)
        pitches == ChordPitches(notes)
    IN  IF pitches = <<>>
        THEN [track |-> head, saved |-> FALSE,
              ret |-> Raised("ValueError: No notes to write")]
        ELSE LET vel == ChordVelocity(notes)
                 off_time == BeatsToTicks(chord_duration_beats, ticks_per_beat)
                 ons == [j \in 1..Len(pitches) |-> NoteOn(pitches[j], vel, channel, 0)]
                 offs == [j \in 1..Len(pitches) |->
                            NoteOff(pitches[j], channel, IF j = 1 THEN off_time ELSE 0)]
             IN  [track |-> head \o ons \o offs, saved |-> TRUE, ret |-> Returned(<<>>)]

----------------------------------------------------------------------------
(* params_from_text and barcode_ascii_to_midi *)

\* str.encode("utf-8", errors="ignore") of one code point below 65536: lone
\* surrogates cannot be encoded and are dropped
Utf8OfChar(c) ==
    IF c < 128 THEN <<c>>
    ELSE IF c < 2048 THEN <<192 + (c \div 64), 128 + (c % 64)>>
    ELSE IF c >= 55296 /\ c <= 57343 THEN <<>>
    ELSE <<224 + (c \div 4096), 128 + ((c \div 64) % 64), 128 + (c % 64)>>

RECURSIVE Utf8Encode(_)
Utf8Encode(text) ==
    IF text = <<>> THEN <<>> ELSE Utf8OfChar(Head(text)) \o Utf8Encode(Tail(text))

\* hashlib.sha256(bytes).digest()[0:6] for every byte string of up to three
\* bytes out of "|", " " and "X": the values hashlib computes
Sha256Table ==
    {
      <<<<>>, <<227, 176, 196, 66, 152, 252>>>>,
      <<<<124>>, <<203, 229, 207, 223, 124, 33>>>>,
      <<<<32>>, <<54, 169, 231, 241, 201, 91>>>>,
      <<<<88>>, <<75, 104, 171, 56, 71, 254>>>>,
      <<<<124, 124>>, <<86, 93, 36, 15, 83, 67>>>>,
      <<<<124, 32>>, <<108, 231, 76, 240, 67, 86>>>>,
      <<<<124, 88>>, <<40, 150, 11, 216, 192, 213>>>>,
      <<<<32, 124>>, <<186, 217, 126, 141, 133, 29>>>>,
      <<<<32, 32>>, <<108, 23, 159, 33, 230, 246>>>>,
      <<<<32, 88>>, <<32, 197, 11, 21, 108, 248>>>>,
      <<<<88, 124>>, <<12, 110, 242, 208, 140, 49>>>>,
      <<<<88, 32>>, <<54, 141, 215, 246, 167, 189>>>>,
      <<<<88, 88>>, <<236, 199, 108, 25, 201, 243>>>>,
      <<<<124, 124, 124>>, <<190, 91, 230, 159, 85, 233>>>>,
      <<<<124, 124, 32>>, <<168, 14, 131, 13, 254, 182>>>>,
      <<<<124, 124, 88>>, <<218, 243, 154, 226, 6, 226>>>>,
      <<<<124, 32, 124>>, <<226, 60, 161, 203, 72, 39>>>>,
      <<<<124, 32, 32>>, <<7, 62, 208, 136, 218, 4>>>>,
      <<<<124, 32, 88>>, <<136, 71, 74, 156, 44, 6>>>>,
      <<<<124, 88, 124>>, <<232, 134, 119, 215, 217, 217>>>>,
      <<<<124, 88, 32>>, <<86, 34, 130, 9, 24, 52>>>>,
      <<<<124, 88, 88>>, <<27, 37, 130, 244, 109, 210>>>>,
      <<<<32, 124, 124>>, <<11, 71, 95, 200, 124, 181>>>>,
      <<<<32, 124, 32>>, <<255, 169, 4, 75, 147, 64>>>>,
      <<<<32, 124, 88>>, <<20, 32, 122, 63, 28, 218>>>>,
      <<<<32, 32, 124>>, <<117, 131, 58, 127, 140, 80>>>>,
      <<<<32, 32, 32>>, <<10, 173, 125, 167, 125, 46>>>>,
      <<<<32, 32, 88>>, <<61, 74, 158, 5, 1, 17>>>>,
      <<<<32, 88, 124>>, <<126, 129, 60, 240, 41, 247>>>>,
      <<<<32, 88, 32>>, <<89, 215, 71, 11, 253, 165>>>>,
      <<<<32, 88, 88>>, <<159, 79, 76, 89, 157, 237>>>>,
      <<<<88, 124, 124>>, <<173, 2, 100, 21, 60, 228>>>>,
      <<<<88, 124, 32>>, <<85, 151, 217, 102, 84, 205>>>>,
      <<<<88, 124, 88>>, <<101, 163, 138, 165, 252, 110>>>>,
      <<<<88, 32, 124>>, <<76, 94, 92, 13, 115, 115>>>>,
      <<<<88, 32, 32>>, <<86, 197, 171, 204, 249, 163>>>>,
      <<<<88, 32, 88>>, <<208, 97, 226, 138, 213, 47>>>>,
      <<<<88, 88, 124>>, <<115, 101, 175, 121, 43, 110>>>>,
      <<<<88, 88, 32>>, <<148, 44, 106, 126, 25, 143>>>>,
      <<<<88, 88, 88>>, <<155, 56, 184, 245, 135, 127>>>> }

\* h[0], ..., h[5] of the SHA-256 digest of a byte string
Sha256Head(bytes) == (CHOOSE row \in Sha256Table : row[1] = bytes)[2]

\* The six parameters from the digest bytes h[0..5] (here h[1..6]).
ParamsFromDigest(h) ==
    LET scales == <<"major", "minor", "pentatonic">>
        programs == <<81, 100, 104, 84, 85, 86>>
    IN  [scale |-> scales[(h[1] % Len(scales)) + 1],
         bpm |-> 70 + (h[2] % 121),
         base_note |-> 36 + (h[3] % 25),
         unit_beats |-> <<1, 2, 3, 4>>[(h[4] % 4) + 1],
         program |-> programs[(h[5] % Len(programs)) + 1],
         chord_duration |-> BeatDen + (h[6] % 8) * 4]

ParamsFromText(text) == ParamsFromDigest(Sha256Head(Utf8Encode(text)))

NoParams ==
    [scale |-> "", bpm |-> 0, base_note |-> 0, unit_beats |-> 0, program |-> 0,
     chord_duration |-> 0]

\* barcode_ascii_to_midi(barcode_ascii, ...) while the global `ch` holds g.
\* The keyword arguments bpm, scale, base_note, unit_beats and program are
\* overwritten by the first statement and play no part.
BarcodeAsciiToMidi(barcode_ascii, g) ==
    IF g = Undefined
    THEN [params_text |-> Undefined, params |-> NoParams, runs |-> <<>>, track |-> <<>>,
          saved |-> FALSE, ret |-> Raised("NameError: name 'ch' is not defined")]
    ELSE LET p == ParamsFromText(g.value)
             n == AsciiToNotes(barcode_ascii, p.base_note, p.scale, p.unit_beats,
                               DefaultMinRun, DefaultMaxRun)
         IN  IF n.ret.kind = "raise"
             THEN [params_text |-> g, params |-> p, runs |-> n.runs, track |-> <<>>,
                   saved |-> FALSE, ret |-> n.ret]
             ELSE IF n.ret.notes = <<>>
             THEN [params_text |-> g, params |-> p, runs |-> n.runs, track |-> <<>>,
                   saved |-> FALSE,
                   ret |-> Raised("ValueError: Input barcode_ascii is empty")]
             ELSE LET e == NotesToMidiChordFile(n.ret.notes, p.bpm, p.program, 0,
                                                DefaultTicksPerBeat, HardCodedChordBeats)
                  IN  [params_text |-> g, params |-> p, runs |-> n.runs,
                       track |-> e.track, saved |-> e.saved, ret |-> e.ret]

----------------------------------------------------------------------------
(* Inputs of ascii_to_notes *)

Alphabet == {124, 32, 88, CR, LF}       \* "|", " ", "X", "\r", "\n"

ExampleText == <<124, 124, 124, 124, 32, 32, 32, 32, 88, 88>>   \* "||||    XX"

SpecialTexts ==
    { ExampleText,
      Repeat(88, DefaultMaxRun + 1),          \* a run longer than max_run
      <<49>>, <<9608>>, <<35>>, <<120>>,      \* the other bar characters
      <<65, 65, LF, 65, 48>> }                \* "AA\nA0"

Texts == SeqsUpTo(Alphabet, MaxLen) \cup SpecialTexts

KnownScales == {"major", "minor", "pentatonic", "MINOR"}
ScaleNames == KnownScales \cup {"dorian"}
BasePitches == {-30, 48, 120}
UnitBeats == {1, 2, 3}                   \* 0.125, 0.25, 0.375 beats
RunWindows == {<<DefaultMinRun, DefaultMaxRun>>, <<2, 3>>}

----------------------------------------------------------------------------
\* The inputs of one call of ascii_to_notes.
NotesArgs ==
    [barcode_ascii : Texts, base_note : BasePitches, scale : ScaleNames,
     unit_beats : UnitBeats, window : RunWindows]

\* A caller is about to call ascii_to_notes with some arguments.
InitNotes ==
    /\ op = "ascii_to_notes"
    /\ args \in NotesArgs
    /\ pc = "call"
    /\ runs = <<>>
    /\ ret = Returned(<<>>)
    /\ track = <<>>
    /\ saved = FALSE
    /\ ch = Undefined
    /\ loop = "imported"
    /\ log = <<>>

\* The call of ascii_to_notes runs to its return or raise.
CallAsciiToNotes ==
    /\ pc = "call"
    /\ op = "ascii_to_notes"
    /\ LET r == AsciiToNotes(args.barcode_ascii, args.base_note, args.scale,
                             args.unit_beats, args.window[1], args.window[2])
       IN  /\ runs' = r.runs
           /\ ret' = r.ret
    /\ pc' = "done"
    /\ UNCHANGED <<op, args, track, saved, ch, loop, log>>

NextNotes == CallAsciiToNotes

SpecNotes == InitNotes /\ [][NextNotes]_vars

----------------------------------------------------------------------------
(* Inputs of the emitters *)

NotePitches == {60, 62}
NoteDurations == {1, 3}                  \* 0.125 and 0.375 beats
NoteVelocities == {1, 55, 95}
NoteSet ==
    {Note(p, d, v) : p \in NotePitches, d \in NoteDurations, v \in NoteVelocities}
NoteLists == SeqsUpTo(NoteSet, MaxNotes)
TicksPerBeat == {1, 3, DefaultTicksPerBeat}
ChordDurations == {4, 16, 24}            \* 0.5, 2.0 and 3.0 beats

SequentialArgs ==
    [notes : NoteLists, bpm : {120}, program : {0}, channel : {0},
     ticks_per_beat : TicksPerBeat]
ChordArgs ==
    [notes : NoteLists, bpm : {120}, program : {0}, channel : {0},
     ticks_per_beat : TicksPerBeat, chord_duration_beats : ChordDurations]

\* A caller is about to call one of the two emitters.
InitMidi ==
    /\ \/ op = "notes_to_midi_file" /\ args \in SequentialArgs
       \/ op = "notes_to_midi_chord_file" /\ args \in ChordArgs
    /\ pc = "call"
    /\ runs = <<>>
    /\ ret = Returned(<<>>)
    /\ track = <<>>
    /\ saved = FALSE
    /\ ch = Undefined
    /\ loop = "imported"
    /\ log = <<>>

\* The call of notes_to_midi_file runs to its end.
CallNotesToMidiFile ==
    /\ pc = "call"
    /\ op = "notes_to_midi_file"
    /\ LET r == NotesToMidiFile(args.notes, args.bpm, args.program, args.channel,
                                args.ticks_per_beat)
       IN  /\ track' = r.track
           /\ saved' = r.saved
           /\ ret' = r.ret
    /\ pc' = "done"
    /\ UNCHANGED <<op, args, runs, ch, loop, log>>

\* The call of notes_to_midi_chord_file runs to its end or its raise.
CallNotesToMidiChordFile ==
    /\ pc = "call"
    /\ op = "notes_to_midi_chord_file"
    /\ LET r == NotesToMidiChordFile(args.notes, args.bpm, args.program, args.channel,
                                     args.ticks_per_beat, args.chord_duration_beats)
       IN  /\ track' = r.track
           /\ saved' = r.saved
           /\ ret' = r.ret
    /\ pc' = "done"
    /\ UNCHANGED <<op, args, runs, ch, loop, log>>

NextMidi == CallNotesToMidiFile \/ CallNotesToMidiChordFile

SpecMidi == InitMidi /\ [][NextMidi]_vars

----------------------------------------------------------------------------
(* The pipeline: the __main__ loop, or a module that imports this one *)

ScanAlphabet == {124, 32, 88}            \* "|", " ", "X"; input() returns no "\r" or "\n"
ScanTexts == SeqsUpTo(ScanAlphabet, MaxScanLen)

\* The module has just been loaded: run as a script its loop is about to
\* start, imported it waits for calls; `ch` is not assigned yet.
InitPipeline ==
    /\ op = "none"
    /\ args = <<>>
    /\ pc = "done"
    /\ runs = <<>>
    /\ ret = Returned(<<>>)
    /\ track = <<>>
    /\ saved = FALSE
    /\ ch = Undefined
    /\ loop \in {"imported", "running"}
    /\ log = <<>>

PipelineOps == {"none", "barcode_ascii_to_midi"}

\* What one call of barcode_ascii_to_midi leaves in the state.
Pipeline(t, g) ==
    LET r == BarcodeAsciiToMidi(t, g)
    IN  /\ op' = "barcode_ascii_to_midi"
        /\ args' = [barcode_ascii |-> t]
        /\ pc' = "done"
        /\ runs' = r.runs
        /\ ret' = r.ret
        /\ track' = r.track
        /\ saved' = r.saved
        /\ log' = Append(log, [text |-> t, params_text |-> r.params_text,
                               params |-> r.params, ret |-> r.ret, track |-> r.track,
                               saved |-> r.saved])

\* One turn of `while(True)`: ch = input(...), then barcode_ascii_to_midi(ch, ...);
\* an exception of the call is not caught and ends the script.
MainLoopScan ==
    /\ op \in PipelineOps
    /\ loop = "running"
    /\ Len(log) < MaxScans
    /\ \E t \in ScanTexts :
          /\ ch' = Bound(t)
          /\ Pipeline(t, Bound(t))
          /\ loop' = IF BarcodeAsciiToMidi(t, Bound(t)).ret.kind = "raise"
                     THEN "crashed" ELSE "running"

\* A module that imported this one calls barcode_ascii_to_midi(t).
ImportedCall ==
    /\ op \in PipelineOps
    /\ loop = "imported"
    /\ Len(log) < MaxScans
    /\ \E t \in ScanTexts : Pipeline(t, ch)
    /\ UNCHANGED <<ch, loop>>

NextPipeline == MainLoopScan \/ ImportedCall

SpecPipeline == InitPipeline /\ [][NextPipeline]_vars

----------------------------------------------------------------------------
(* params_from_text on its own *)

Bytes == 0..255

\* The texts whose digest Sha256Table holds (the empty text among them).
ParamTexts == {row[1] : row \in Sha256Table}

\* Digest heads h[0..5]: those of ParamTexts, each with one byte replaced by
\* every byte value, so that every byte value occurs at every position.
DigestHeads ==
    {[i \in 1..6 |-> IF i = k THEN b ELSE Sha256Head(Utf8Encode(t))[i]] :
        t \in {<<>>, <<124>>}, k \in 1..6, b \in Bytes}

\* What a call of params_from_text returns.
ReturnedParams(p) == [kind |-> "return", exc |-> "", notes |-> <<>>, params |-> p]

\* A caller is about to call params_from_text(text), or the function has
\* computed the digest h and is about to reduce its bytes (lines 32-42).
InitParams ==
    /\ \/ op = "params_from_text" /\ args \in [text : ParamTexts]
       \/ op = "params_from_digest" /\ args \in [h : DigestHeads]
    /\ pc = "call"
    /\ runs = <<>>
    /\ ret = Returned(<<>>)
    /\ track = <<>>
    /\ saved = FALSE
    /\ ch = Undefined
    /\ loop = "imported"
    /\ log = <<>>

\* params_from_text(text) runs to its return.
CallParamsFromText ==
    /\ pc = "call"
    /\ op = "params_from_text"
    /\ ret' = ReturnedParams(ParamsFromText(args.text))
    /\ pc' = "done"
    /\ UNCHANGED <<op, args, runs, track, saved, ch, loop, log>>

\* The statements after the digest run to the return, for the digest head h.
CallParamsFromDigest ==
    /\ pc = "call"
    /\ op = "params_from_digest"
    /\ ret' = ReturnedParams(ParamsFromDigest(args.h))
    /\ pc' = "done"
    /\ UNCHANGED <<op, args, runs, track, saved, ch, loop, log>>

NextParams == CallParamsFromText \/ CallParamsFromDigest

SpecParams == InitParams /\ [][NextParams]_vars

----------------------------------------------------------------------------
(* The whole module *)

Init == InitNotes \/ InitMidi \/ InitPipeline \/ InitParams

Next == NextNotes \/ NextMidi \/ NextPipeline \/ NextParams

Spec == Init /\ [][Next]_vars

----------------------------------------------------------------------------
(* Properties of ascii_to_notes *)

NotesDone == pc = "done" /\ op = "ascii_to_notes"

\* The text the runs stand for: each run's character repeated length times.
RECURSIVE Expand(_)
Expand(rl) ==
    IF rl = <<>> THEN <<>>
    ELSE Repeat(Head(rl)[1], Head(rl)[2]) \o Expand(Tail(rl))

\* C1: for every text that is non-empty once "\r" and "\n" are removed, the
\* runs of ascii_to_notes, each character repeated its unclamped length
\* times and concatenated in order, give back exactly that text.
C1_RoundTrip ==
    (NotesDone /\ Normalize(args.barcode_ascii) # <<>>)
        => Expand(runs) = Normalize(args.barcode_ascii)

\* A call on "AA\nA0": the newline is dropped and the runs are (A,3), (0,1).
C1_Witness ==
    /\ NotesDone
    /\ args.barcode_ascii = <<65, 65, LF, 65, 48>>
    /\ runs = << <<65, 3>>, <<48, 1>> >>

\* C2: with a known scale and the default clamp window 1..12, every Note
\* ascii_to_notes returns has 0 <= pitch <= 127, 1 <= velocity <= 127 and
\* duration_beats > 0, whatever the text, the base pitch and the (positive)
\* unit_beats.
C2_RangeInvariant ==
    (/\ NotesDone
     /\ args.scale \in KnownScales
     /\ args.window = <<DefaultMinRun, DefaultMaxRun>>)
        => /\ ret.kind = "return"
           /\ \A j \in 1..Len(ret.notes) :
                 /\ 0 <= ret.notes[j].pitch /\ ret.notes[j].pitch <= 127
                 /\ 1 <= ret.notes[j].velocity /\ ret.notes[j].velocity <= 127
                 /\ ret.notes[j].duration_beats > 0

\* A call whose pitches are held at both ends of 0..127: base pitch 120
\* gives 127, base pitch -30 gives 0.
C2_Witness ==
    /\ NotesDone
    /\ args.scale \in KnownScales
    /\ args.window = <<DefaultMinRun, DefaultMaxRun>>
    /\ \/ args.base_note = 120 /\ \E j \in 1..Len(ret.notes) : ret.notes[j].pitch = 127
       \/ args.base_note = -30 /\ \E j \in 1..Len(ret.notes) : ret.notes[j].pitch = 0
    /\ \E j \in 1..Len(ret.notes) : ret.notes[j].duration_beats = 12 * args.unit_beats
    /\ Len(Normalize(args.barcode_ascii)) > DefaultMaxRun

\* The formula of C3 for the run (c, n) at 0-based position i.
C3_Expected(i, c, n, a) ==
    LET lo == a.window[1]
        hi == a.window[2]
        r == IF n < lo THEN lo ELSE IF n > hi THEN hi ELSE n
        marked == c \in {124, 49, 9608, 35, 88, 120}
        table == SCALES[Lower(a.scale)]
        raw == a.base_note + table[((c + i + r) % Len(table)) + 1]
                 + (IF marked THEN 12 ELSE 0)
    IN  [pitch |-> IF raw < 0 THEN 0 ELSE IF raw > 127 THEN 127 ELSE raw,
         velocity |-> IF marked THEN 95 ELSE 55,
         duration_beats |-> r * a.unit_beats]

\* C3: when ascii_to_notes returns, it returns one Note per run in run
\* order, and the Note of the run (c, n) at position i has pitch
\* clamp(base + scale[(codepoint(c) + i + r) mod len(scale)] + (12 if marked), 0, 127),
\* velocity 95 if marked else 55 and duration r * unit_beats, where r is n
\* clamped to the window; "||||    XX" in minor at base 48 with unit 0.25
\* gives velocities 95, 55, 95 and durations 1.0, 1.0, 0.5 beats.
C3_MapperFormula ==
    (NotesDone /\ ret.kind = "return")
        => /\ Len(ret.notes) = Len(runs)
           /\ \A j \in 1..Len(runs) :
                 ret.notes[j] = C3_Expected(j - 1, runs[j][1], runs[j][2], args)
           /\ (/\ args.barcode_ascii = ExampleText
               /\ args.scale = "minor"
               /\ args.base_note = 48
               /\ args.unit_beats = 2
               /\ args.window = <<DefaultMinRun, DefaultMaxRun>>)
                 => /\ Len(ret.notes) = 3
                    /\ [j \in 1..3 |-> ret.notes[j].velocity] = <<95, 55, 95>>
                    /\ [j \in 1..3 |-> ret.notes[j].duration_beats] = <<8, 8, 4>>

\* The example call has returned its three notes (pitches 63, 51, 62).
C3_Witness ==
    /\ NotesDone
    /\ args.barcode_ascii = ExampleText
    /\ args.scale = "minor"
    /\ args.base_note = 48
    /\ args.unit_beats = 2
    /\ args.window = <<DefaultMinRun, DefaultMaxRun>>
    /\ [j \in 1..Len(ret.notes) |-> ret.notes[j].pitch] = <<63, 51, 62>>

\* C7: whatever the text (empty and newline-only texts included), a call of
\* ascii_to_notes with a scale name that is not in SCALES raises and does
\* not return normally.
C7_UnknownScaleRaises ==
    (NotesDone /\ Lower(args.scale) \notin DOMAIN SCALES) => ret.kind = "raise"

----------------------------------------------------------------------------
(* Properties of the emitters *)

MidiFileDone == pc = "done" /\ op = "notes_to_midi_file"
ChordDone == pc = "done" /\ op = "notes_to_midi_chord_file"

\* The positions of the messages of one type in a track, in track order.
Indices(tr, type) == Sorted({i \in 1..Len(tr) : tr[i].type = type})

\* The absolute tick of message i: the sum of the delta times up to it.
RECURSIVE AbsTick(_, _)
AbsTick(tr, i) == IF i = 0 THEN 0 ELSE AbsTick(tr, i - 1) + tr[i].time

\* The durations of notes 1..k in ticks, summed.
RECURSIVE CumTicks(_, _, _)
CumTicks(notes, k, tpb) ==
    IF k = 0 THEN 0
    ELSE CumTicks(notes, k - 1, tpb) + ((notes[k].duration_beats * tpb) \div 8)

\* C4: in the track of notes_to_midi_file the k-th note_off is at the
\* absolute tick that is the sum of the tick durations of notes 1..k, the
\* note_on of note k+1 is not before the note_off of note k, and the track
\* ends at the sum of all tick durations (a tick duration is
\* int(duration_beats * ticks_per_beat)).
C4_SequentialEmission ==
    MidiFileDone =>
        LET ons == Indices(track, "note_on")
            offs == Indices(track, "note_off")
            n == Len(args.notes)
        IN  /\ Len(ons) = n /\ Len(offs) = n
            /\ \A k \in 1..n :
                  /\ AbsTick(track, offs[k]) = CumTicks(args.notes, k, args.ticks_per_beat)
                  /\ track[ons[k]].note = args.notes[k].pitch
                  /\ track[offs[k]].note = args.notes[k].pitch
                  /\ ons[k] < offs[k]
                  /\ AbsTick(track, ons[k]) <= AbsTick(track, offs[k])
            /\ \A k \in 1..(n - 1) :
                  /\ offs[k] < ons[k + 1]
                  /\ AbsTick(track, ons[k + 1]) >= AbsTick(track, offs[k])
            /\ AbsTick(track, Len(track)) = CumTicks(args.notes, n, args.ticks_per_beat)

\* Three notes of 0.375, 0.125 and 0.375 beats at 480 ticks per beat: the
\* note_offs are at ticks 180, 240 and 420.
C4_Witness ==
    /\ MidiFileDone
    /\ args.ticks_per_beat = 480
    /\ [j \in 1..Len(args.notes) |-> args.notes[j].duration_beats] = <<3, 1, 3>>
    /\ LET offs == Indices(track, "note_off")
       IN  [k \in 1..Len(offs) |-> AbsTick(track, offs[k])] = <<180, 240, 420>>

\* C5: for a non-empty Note list the track of notes_to_midi_chord_file has
\* exactly one note_on and one note_off per distinct input pitch, in
\* ascending pitch order, every note_on at tick 0 and before every
\* note_off, and every note_off at tick int(chord_duration_beats * ticks_per_beat).
C5_ChordStructure ==
    (ChordDone /\ args.notes # <<>>) =>
        LET ons == Indices(track, "note_on")
            offs == Indices(track, "note_off")
            P == {args.notes[j].pitch : j \in 1..Len(args.notes)}
        IN  /\ ret.kind = "return"
            /\ {track[ons[k]].note : k \in 1..Len(ons)} = P
            /\ {track[offs[k]].note : k \in 1..Len(offs)} = P
            /\ Len(ons) = Cardinality(P) /\ Len(offs) = Cardinality(P)
            /\ \A k \in 1..(Len(ons) - 1) : track[ons[k]].note < track[ons[k + 1]].note
            /\ \A k \in 1..(Len(offs) - 1) : track[offs[k]].note < track[offs[k + 1]].note
            /\ \A k \in 1..Len(ons) : AbsTick(track, ons[k]) = 0
            /\ \A k \in 1..Len(ons), m \in 1..Len(offs) : ons[k] < offs[m]
            /\ \A m \in 1..Len(offs) :
                  AbsTick(track, offs[m])
                    = (args.chord_duration_beats * args.ticks_per_beat) \div 8

\* A chord of the pitches 62, 60, 62 lasting 0.5 beat at 3 ticks per beat:
\* note_ons for 60 and 62, note_offs at tick 1.
C5_Witness ==
    /\ ChordDone
    /\ [j \in 1..Len(args.notes) |-> args.notes[j].pitch] = <<62, 60, 62>>
    /\ args.chord_duration_beats = 4 /\ args.ticks_per_beat = 3
    /\ LET ons == Indices(track, "note_on")
           offs == Indices(track, "note_off")
       IN  /\ [k \in 1..Len(ons) |-> track[ons[k]].note] = <<60, 62>>
           /\ [k \in 1..Len(offs) |-> AbsTick(track, offs[k])] = <<1, 1>>

\* The sum of the velocities of all the notes of a list.
RECURSIVE VelocityTotal(_, _)
VelocityTotal(notes, k) ==
    IF k = 0 THEN 0 ELSE VelocityTotal(notes, k - 1) + notes[k].velocity

Clamp1To127(v) == IF v < 1 THEN 1 ELSE IF v > 127 THEN 127 ELSE v

\* round(a / b) of Python 3 for a >= 0, b > 0: to nearest, ties to even
RoundHalfEven(a, b) ==
    LET q == a \div b
        r == a % b
    IN  IF 2 * r < b THEN q
        ELSE IF 2 * r > b THEN q + 1
        ELSE IF q % 2 = 0 THEN q ELSE q + 1

\* C6 as stated: every note_on of the chord carries round(mean of the
\* velocities of all input notes) clamped to [1, 127].
C6_VelocityRounded ==
    (ChordDone /\ args.notes # <<>>) =>
        \A i \in 1..Len(track) :
            track[i].type = "note_on" =>
                track[i].velocity
                  = Clamp1To127(RoundHalfEven(VelocityTotal(args.notes, Len(args.notes)),
                                              Len(args.notes)))

\* C6 (amended): every note_on of the chord carries the mean of the
\* velocities of all input notes (duplicate pitches included) truncated to
\* an integer, clamped to [1, 127].
C6_VelocityTruncated ==
    (ChordDone /\ args.notes # <<>>) =>
        LET total == VelocityTotal(args.notes, Len(args.notes))
            n == Len(args.notes)
        IN  /\ \E i \in 1..Len(track) : track[i].type = "note_on"
            /\ \A i \in 1..Len(track) :
                  track[i].type = "note_on" =>
                      \E v \in 0..127 :
                          /\ v * n <= total /\ total < (v + 1) * n
                          /\ track[i].velocity = Clamp1To127(v)

\* Three notes with velocities 95, 55, 95, the first and last of the same
\* pitch: every note_on has velocity 81 (the mean is 81.67).
C6_Witness ==
    /\ ChordDone
    /\ Len(args.notes) = 3
    /\ args.notes[1].pitch = args.notes[3].pitch
    /\ [j \in 1..3 |-> args.notes[j].velocity] = <<95, 55, 95>>
    /\ LET ons == Indices(track, "note_on")
       IN  Len(ons) >= 1 /\ \A k \in 1..Len(ons) : track[ons[k]].velocity = 81

\* C8: a call of either emitter with an empty Note list raises and does not
\* reach mid.save.
C8_EmptyNeverSaved ==
    (/\ pc = "done"
     /\ op \in {"notes_to_midi_file", "notes_to_midi_chord_file"}
     /\ args.notes = <<>>)
        => (ret.kind = "raise" /\ ~saved)

----------------------------------------------------------------------------
(* Properties of the pipeline *)

\* C9: every call of barcode_ascii_to_midi derives its parameters from the
\* text it segments, and two calls with the same text have the same
\* parameters and the same messages, whatever was called before and
\* whatever the module-level variables hold.
C9_PipelineDeterminism ==
    /\ \A i \in 1..Len(log) :
          /\ log[i].params_text = Bound(log[i].text)
          /\ log[i].params = ParamsFromText(log[i].text)
    /\ \A i, j \in 1..Len(log) :
          log[i].text = log[j].text
            => log[i].params = log[j].params /\ log[i].track = log[j].track

\* C10: when barcode_ascii_to_midi has written a chord, every note_off is
\* at tick int(chord_duration_beats * ticks_per_beat) for the
\* chord_duration_beats that params_from_text derives from the text.
C10_DerivedChordDuration ==
    (pc = "done" /\ op = "barcode_ascii_to_midi" /\ saved) =>
        \A i \in 1..Len(track) :
            track[i].type = "note_off" =>
                AbsTick(track, i)
                  = (ParamsFromText(args.barcode_ascii).chord_duration * 480) \div 8

----------------------------------------------------------------------------
(* Properties of params_from_text *)

ParamsDone == pc = "done" /\ op \in {"params_from_text", "params_from_digest"}

\* The digest head the finished call reduced.
DigestOfCall ==
    IF op = "params_from_text" THEN Sha256Head(Utf8Encode(args.text)) ELSE args.h

\* The reductions of the digest bytes b0..b5 and the ranges of the first
\* five parameters, as C11 states them.
C11_Reductions(b, p) ==
    /\ p.scale = <<"major", "minor", "pentatonic">>[(b[1] % 3) + 1]
    /\ p.bpm = 70 + (b[2] % 121) /\ 70 <= p.bpm /\ p.bpm <= 190
    /\ p.base_note = 36 + (b[3] % 25) /\ 36 <= p.base_note /\ p.base_note <= 60
    /\ p.unit_beats = (b[4] % 4) + 1 /\ p.unit_beats \in {1, 2, 3, 4}
    /\ p.program = <<81, 100, 104, 84, 85, 86>>[(b[5] % 6) + 1]
    /\ p.chord_duration = 8 + (b[6] % 8) * 4

\* The chord durations (in 1/8 beats) params_from_text returns over all
\* values of byte 5.
ChordDurationsOverBytes ==
    {ParamsFromDigest([i \in 1..6 |-> IF i = 6 THEN b ELSE 0]).chord_duration : b \in Bytes}

\* C11: params_from_text returns for every text, the empty one included,
\* the tuple reduced from digest bytes 0..5 by the stated formulas, with
\* bpm in [70,190], base_pitch in [36,60], unit_beats in {0.125, 0.25,
\* 0.375, 0.5}, and chord_duration_beats = 1.0 + (b5 mod 8) * 0.5 ranging
\* over [1.0, 5.0]: its minimum, at b5 mod 8 = 0, is 1.0 and its maximum,
\* at b5 mod 8 = 7, is 5.0.
C11_ParamsTotalInRange ==
    ParamsDone =>
        /\ ret.kind = "return"
        /\ C11_Reductions(DigestOfCall, ret.params)
        /\ 8 <= ret.params.chord_duration /\ ret.params.chord_duration <= 40
        /\ (DigestOfCall[6] % 8 = 0 => ret.params.chord_duration = 8)
        /\ (DigestOfCall[6] % 8 = 7 => ret.params.chord_duration = 40)

\* What the code does: every call returns the tuple of the stated
\* reductions, and chord_duration_beats ranges over 1.0, 1.5, ..., 4.5, its
\* maximum 4.5 at b5 mod 8 = 7.
ParamsMaxFourAndAHalf ==
    ParamsDone =>
        /\ ret.kind = "return"
        /\ C11_Reductions(DigestOfCall, ret.params)
        /\ ChordDurationsOverBytes = {8, 12, 16, 20, 24, 28, 32, 36}
        /\ ret.params.chord_duration \in ChordDurationsOverBytes
        /\ (DigestOfCall[6] % 8 = 7 => ret.params.chord_duration = 36)

====
